---- MODULE Spec2Model ----
(***************************************************************************)
(* Model of the publish orchestration of kwsksj/auto-post:                 *)
(*   - GoogleAPI.get_posts_for_date / update_post_status (google_api.py)   *)
(*   - Poster.run_daily_post / _process_post / _post_to_instagram /        *)
(*     _post_to_x (poster.py)                                              *)
(*   - TokenManager (token_manager.py)                                     *)
(***************************************************************************)
EXTENDS Integers, Sequences, FiniteSets, TLC

(***************************************************************************)
(* Bounds of the model.                                                    *)
(***************************************************************************)
MaxRows == 2
MaxRuns == 2
\* Collaborator failures (Drive, R2, Instagram, X, ledger) injected in one
\* behaviour.
MaxFaults == 2

(***************************************************************************)
(* Program constants (config.py, class Columns: 0-based column indices).   *)
(***************************************************************************)
SCHEDULED_DATE == 6
SKIP == 7
IG_POSTED == 10
X_POSTED == 12
ERROR_LOG == 14

(***************************************************************************)
(* Strings.  A cell text is a sequence of tokens; the token " " is white   *)
(* space, "D1" and "D2" are well-formed "%Y-%m-%d" dates, every other      *)
(* token is text that is no date.  "" is the empty sequence.               *)
(***************************************************************************)
Dates == {"D1", "D2"}
TimesOfDay == {"am", "pm"}

\* str.split(): the maximal runs of non-blank tokens (tokens of the model
\* are never adjacent without a blank between them).
RECURSIVE split(_)
split(s) ==
    IF s = <<>> THEN <<>>
    ELSE IF Head(s) = " " THEN split(Tail(s))
    ELSE <<Head(s)>> \o split(Tail(s))

\* str.upper() on the flag texts a cell can hold.
upper(s) ==
    CASE s = "true" -> "TRUE"
      [] s = "True" -> "TRUE"
      [] s = "false" -> "FALSE"
      [] OTHER -> s

\* datetime.strptime(word, "%Y-%m-%d"): the date, or ValueError.
strptime(word) == IF word \in Dates THEN word ELSE "ValueError"

\* datetime.strftime("%Y-%m-%d") of a datetime: the date part only.
strftime(dt) == dt.date

\* row[col] if len(row) > col else ""
RowCell(row, col, field) == IF row.len > col THEN row[field] ELSE ""

(***************************************************************************)
(* GoogleAPI.get_posts_for_date.  data is the sequence of data rows        *)
(* (data[1:] of the sheet); row k of it has row_idx k + 1.                 *)
(* The result is the list of posts, or the exception that escapes.         *)
(***************************************************************************)
\* RowDecision without the "already posted on both" test of lines 272-276.
RowDecision_NoPostedCheck(row, target_str) ==
    IF row.len <= SCHEDULED_DATE THEN "skip"
    ELSE IF row.sched = <<>> THEN "skip"
    ELSE IF split(row.sched) = <<>> THEN "IndexError"
    ELSE IF strptime(split(row.sched)[1]) = "ValueError" THEN "skip"
    ELSE IF strptime(split(row.sched)[1]) # target_str THEN "skip"
    ELSE IF upper(RowCell(row, SKIP, "skip")) = "TRUE" THEN "skip"
    ELSE "take"

\* The decision taken for one row: "skip" (continue), "take", or the
\* exception raised while looking at it.
RowDecision(row, target_str) ==
    IF row.len <= SCHEDULED_DATE THEN "skip"
    ELSE IF row.sched = <<>> THEN "skip"
    ELSE IF split(row.sched) = <<>> THEN "IndexError"
    ELSE IF strptime(split(row.sched)[1]) = "ValueError" THEN "skip"
    ELSE IF strptime(split(row.sched)[1]) # target_str THEN "skip"
    ELSE IF upper(RowCell(row, SKIP, "skip")) = "TRUE" THEN "skip"
    ELSE IF /\ upper(RowCell(row, IG_POSTED, "ig_posted")) = "TRUE"
            /\ upper(RowCell(row, X_POSTED, "x_posted")) = "TRUE" THEN "skip"
    ELSE "take"

\* A post built without reading the posted flags of the row.
PostOf_Unposted(row, k) ==
    [ row_idx   |-> k + 1,
      ig_posted |-> FALSE,
      x_posted  |-> FALSE ]

\* Lines 278-289: the post of a row, with its posted flags.
PostOf(row, k) ==
    [ row_idx   |-> k + 1,
      ig_posted |-> upper(RowCell(row, IG_POSTED, "ig_posted")) = "TRUE",
      x_posted  |-> upper(RowCell(row, X_POSTED, "x_posted")) = "TRUE" ]

RECURSIVE PostsFrom(_, _, _)
PostsFrom(data, k, target_str) ==
    IF k > Len(data) THEN <<>>
    ELSE IF RowDecision(data[k], target_str) = "take"
         THEN <<PostOf(data[k], k)>> \o PostsFrom(data, k + 1, target_str)
         ELSE PostsFrom(data, k + 1, target_str)

\* len(data) <= 1 (header only) returns [] before any row is looked at.
get_posts_for_date(data, target_date) ==
    IF \E k \in 1..Len(data) :
           RowDecision(data[k], strftime(target_date)) = "IndexError"
    THEN [exc |-> "IndexError", posts |-> <<>>]
    ELSE [exc |-> "none", posts |-> PostsFrom(data, 1, strftime(target_date))]

(***************************************************************************)
(* GoogleAPI.update_post_status.  An argument left out is "None".  The     *)
(* cells are written one update_cell call after the other, so a ledger     *)
(* failure leaves the first `done` of them written.                        *)
(***************************************************************************)
NoArgs ==
    [ ig_posted |-> "None", ig_post_id |-> "None",
      x_posted |-> "None", x_post_id |-> "None", error_log |-> "None" ]

FlagText(flag) == IF flag = "True" THEN "TRUE" ELSE ""

\* CellWrites without the "is not None" tests on the posted flags: a flag
\* left out is written as blank.
CellWrites_NoNoneCheck(row, args, timestamp) ==
    <<[field |-> "ig_posted", flag |-> FlagText(args.ig_posted)]>>
    \o (IF args.ig_post_id # "None"
        THEN <<[field |-> "ig_post_id", flag |-> args.ig_post_id]>>
        ELSE <<>>)
    \o <<[field |-> "x_posted", flag |-> FlagText(args.x_posted)]>>
    \o (IF args.x_post_id # "None"
        THEN <<[field |-> "x_post_id", flag |-> args.x_post_id]>>
        ELSE <<>>)
    \o (IF args.error_log # "None"
        THEN <<[field |-> "error_log", flag |-> args.error_log]>>
        ELSE <<>>)

\* The update_cell calls of one update_post_status call, in program order.
CellWrites(row, args, timestamp) ==
    (IF args.ig_posted # "None"
        THEN <<[field |-> "ig_posted", flag |-> FlagText(args.ig_posted)]>>
        ELSE <<>>)
    \o (IF args.ig_post_id # "None"
        THEN <<[field |-> "ig_post_id", flag |-> args.ig_post_id]>>
        ELSE <<>>)
    \o (IF args.x_posted # "None"
        THEN <<[field |-> "x_posted", flag |-> FlagText(args.x_posted)]>>
        ELSE <<>>)
    \o (IF args.x_post_id # "None"
        THEN <<[field |-> "x_post_id", flag |-> args.x_post_id]>>
        ELSE <<>>)
    \o (IF args.error_log # "None"
        THEN <<[field |-> "error_log", flag |-> args.error_log]>>
        ELSE <<>>)

\* update_cell adding the value to what the cell holds.
update_cell_Concat(row, w, timestamp) ==
    IF w.field = "error_log"
    THEN [row EXCEPT !.error_log =
              Append(row.error_log, [at |-> timestamp, msg |-> w.flag])]
    ELSE [row EXCEPT ![w.field] = @ \o w.flag]

\* One update_cell.  The error log cell gets the text read from it
\* followed by the new timestamped entry.
update_cell(row, w, timestamp) ==
    IF w.field = "error_log"
    THEN [row EXCEPT !.error_log =
              Append(row.error_log, [at |-> timestamp, msg |-> w.flag])]
    ELSE [row EXCEPT ![w.field] = w.flag]

RECURSIVE ApplyWrites(_, _, _, _)
ApplyWrites(row, writes, done, timestamp) ==
    IF done = 0 \/ writes = <<>> THEN row
    ELSE ApplyWrites(update_cell(row, Head(writes), timestamp),
                     Tail(writes), done - 1, timestamp)

\* update_post_status taking row_idx for an index into the data rows: the
\* cells of the row below are written (of the last row when there is none).
update_post_status_RowBelow(data, row_idx, args, timestamp, done) ==
    LET k == IF row_idx <= Len(data) THEN row_idx ELSE row_idx - 1
    IN  [data EXCEPT ![k] =
            ApplyWrites(data[k], CellWrites(data[k], args, timestamp),
                        done, timestamp)]

\* Lines 293-319: the cells of sheet row row_idx, one update_cell each.
update_post_status(data, row_idx, args, timestamp, done) ==
    [data EXCEPT ![row_idx - 1] =
        ApplyWrites(data[row_idx - 1],
                    CellWrites(data[row_idx - 1], args, timestamp),
                    done, timestamp)]

NumWrites(data, row_idx, args) ==
    Len(CellWrites(data[row_idx - 1], args, 0))

(***************************************************************************)
(* State.                                                                  *)
(***************************************************************************)
VARIABLES
    ledger,     \* the data rows of the main sheet (row k has row_idx k + 1)
    pc,         \* position of run_daily_post
    runs,       \* number of runs started so far
    target,     \* target_date of the current run
    posts,      \* the list returned by get_posts_for_date
    idx,        \* index in posts of the item of the for loop
    stats,      \* the stats dict
    images,     \* the current item has images_data (1) or not yet (0)
    pending,    \* post id returned by the publisher, not yet recorded
    published,  \* per row_idx and platform: remote posts made so far
    legs,       \* per row_idx: what happened to the item in this run
    stats0,     \* stats when the current item was started
    faults,     \* collaborator failures so far
    unrecorded, \* publishes that succeeded and whose posted flag was not written
    all_posted  \* when the run started, every row of its date was posted
                \* on both platforms

pvars == <<ledger, pc, runs, target, posts, idx, stats, images, pending,
           published, legs, stats0, faults, unrecorded, all_posted>>

\* get_posts_for_date called on its own.
VARIABLES
    sheet,      \* the data rows handed to get_posts_for_date
    due_at,     \* the target datetime
    due         \* the outcome of the call ("none" before it)

dvars == <<sheet, due_at, due>>

\* The token manager.
VARIABLES
    stored,     \* the JSON object under TOKEN_FILE_KEY in R2
    now,        \* datetime.now()
    issued,     \* tokens the exchange endpoint has issued
    last,       \* the last call: what it returned and what it called
    prev,       \* the call before it
    calls       \* calls made so far

tvars == <<stored, now, issued, last, prev, calls>>

\* Posting the images of one item to one platform.
VARIABLES
    mpc,         \* where the call is
    op,          \* "instagram" or "x"
    images_data, \* the images handed in
    r2_keys,     \* keys of the objects staged so far
    image_urls,  \* their URLs
    staged,      \* objects of this call that are in the bucket
    released,    \* keys whose delete has been called
    primary,     \* how the try block ended
    result,     \* how the call ended
    warnings,    \* warnings logged
    media_ids,   \* media uploaded to X
    mfaults      \* failures met in this call

mvars == <<mpc, op, images_data, r2_keys, image_urls, staged, released,
           primary, result, warnings, media_ids, mfaults>>

\* The error log of one item.
VARIABLES
    backend,    \* the ledger in use: "google" or "notion"
    log,        \* the stored error log, a sequence of characters
    entries     \* the entries recorded so far, in order

lvars == <<backend, log, entries>>

\* Recording a success twice.
VARIABLES
    book,       \* the data rows of a sheet
    page,       \* the properties of a Notion page
    applied,    \* the success record applied last, and how many times
    first       \* the ledgers as its first application left them

rvars == <<book, page, applied, first>>

\* The caption of an item.
VARIABLES
    request,    \* the arguments of the last generate_caption call
    caption     \* what it returned, None before the call

cvars == <<request, caption>>

ZeroStats == [processed |-> 0, ig_success |-> 0, x_success |-> 0, errors |-> 0]

NoLeg == [acquired |-> "none", ig |-> "none", ig_rec |-> "none",
          x |-> "none", x_rec |-> "none", ended |-> "no", d |-> ZeroStats]

RowIdxs == 2..(MaxRows + 1)

\* Rows as scan_folders_to_spreadsheet and the operator leave them: full
\* length, a scheduled date with or without a time of day, the skip box
\* ticked or not, nothing posted, no error yet.
FreshRow(sc, sk) ==
    [ len |-> ERROR_LOG + 1, sched |-> sc, skip |-> sk,
      ig_posted |-> "", ig_post_id |-> "",
      x_posted |-> "", x_post_id |-> "", error_log |-> <<>> ]

FreshRows ==
    { FreshRow(<<"D1">>, ""), FreshRow(<<"D2", " ", "time">>, ""),
      FreshRow(<<"D1">>, "TRUE") }

Ledgers(rows) == UNION { [1..n -> rows] : n \in 0..MaxRows }

PInit ==
    /\ ledger \in Ledgers(FreshRows)
    /\ pc = "idle"
    /\ runs = 0
    /\ target = "D1"
    /\ posts = <<>>
    /\ idx = 1
    /\ stats = ZeroStats
    /\ images = 0
    /\ pending = ""
    /\ published = [r \in RowIdxs |-> [ig |-> 0, x |-> 0]]
    /\ legs = [r \in RowIdxs |-> NoLeg]
    /\ stats0 = ZeroStats
    /\ faults = 0
    /\ unrecorded = {}
    /\ all_posted = FALSE

\* The row is scheduled for the date, whatever its time of day.
ScheduledOn(row, d) ==
    /\ row.len > SCHEDULED_DATE
    /\ split(row.sched) # <<>>
    /\ split(row.sched)[1] = d

BothPosted(row) ==
    upper(row.ig_posted) = "TRUE" /\ upper(row.x_posted) = "TRUE"

\* The environment may fail a call while the budget lasts.
MayFail == faults < MaxFaults
Failed(failed) == faults' = IF failed THEN faults + 1 ELSE faults

\* The loop variable stuck on the first item of the list.
post_First == posts[1]

\* for post in posts (line 60)
post == posts[idx]

\* stats[counter] += 2
Bump_Twice(s, counter) == [s EXCEPT ![counter] = @ + 2]

\* stats[counter] += 1
Bump(s, counter) == [s EXCEPT ![counter] = @ + 1]

Delta(s, s0) ==
    [ processed |-> s.processed - s0.processed,
      ig_success |-> s.ig_success - s0.ig_success,
      x_success |-> s.x_success - s0.x_success,
      errors |-> s.errors - s0.errors ]

PostId(platform, row_idx, n) ==
    platform \o ToString(row_idx) \o "." \o ToString(n)

(***************************************************************************)
(* Poster.run_daily_post, one step per collaborator call.                  *)
(***************************************************************************)
\* Lines 49-58: list the due posts, zero the stats.  An exception of
\* get_posts_for_date is outside every try and ends the run.
StartRun ==
    /\ UNCHANGED <<dvars, tvars, mvars, lvars, rvars, cvars>>
    /\ pc \in {"idle", "returned", "aborted", "crashed"}
    /\ runs < MaxRuns
    /\ \E d \in Dates, t \in TimesOfDay :
        LET dt == [date |-> d, time |-> t]
            listed == get_posts_for_date(ledger, dt)
        IN  /\ target' = strftime(dt)
            /\ posts' = listed.posts
            /\ pc' = IF listed.exc = "none" THEN "loop" ELSE "aborted"
            /\ all_posted' = \A k \in 1..Len(ledger) :
                                 ScheduledOn(ledger[k], d) => BothPosted(ledger[k])
    /\ runs' = runs + 1
    /\ idx' = 1
    /\ stats' = ZeroStats
    /\ stats0' = ZeroStats
    /\ images' = 0
    /\ pending' = ""
    /\ legs' = [r \in RowIdxs |-> NoLeg]
    /\ UNCHANGED <<ledger, published, unrecorded, faults>>

\* _process_post lines 81-109: look the folder up, download its images.
\* The folder may be missing or empty (ValueError) and a download may fail.
\* The run hands the images on and never looks at their number: one image
\* stands for any positive number of them.
Acquire ==
    /\ UNCHANGED <<dvars, tvars, mvars, lvars, rvars, cvars>>
    /\ pc = "loop"
    /\ idx <= Len(posts)
    /\ stats0' = stats
    /\ \E outcome \in {"ok", "missing", "empty", "download_error"} :
        /\ outcome = "ok" \/ MayFail
        /\ Failed(outcome # "ok")
        /\ IF outcome = "ok"
           THEN /\ images' = 1
                /\ legs' = [legs EXCEPT ![post.row_idx].acquired = "ok"]
                /\ pc' = "ig"
           ELSE /\ images' = 0
                /\ legs' = [legs EXCEPT ![post.row_idx].acquired = "fail"]
                /\ pc' = "catch"
    /\ UNCHANGED <<ledger, runs, target, posts, idx, stats, pending, published, unrecorded,
                   all_posted>>

\* Line 112: already posted to Instagram, nothing to do.
IgSkip ==
    /\ UNCHANGED <<dvars, tvars, mvars, lvars, rvars, cvars>>
    /\ pc = "ig"
    /\ post.ig_posted
    /\ pc' = "x"
    /\ UNCHANGED <<ledger, runs, target, posts, idx, stats, images, pending,
                   published, unrecorded, legs, stats0, faults,
                   all_posted>>

\* _post_to_instagram called without the test of line 112.
IgPublish_Unguarded ==
    /\ UNCHANGED <<dvars, tvars, mvars, lvars, rvars, cvars>>
    /\ pc = "ig"
    /\ \E outcome \in {"ok", "api_error", "other"} :
        /\ outcome = "ok" \/ MayFail
        /\ Failed(outcome # "ok")
        /\ legs' = [legs EXCEPT ![post.row_idx].ig = outcome]
        /\ IF outcome = "ok"
           THEN /\ published' = [published EXCEPT ![post.row_idx].ig = @ + 1]
                /\ pending' = PostId("ig", post.row_idx,
                                     published[post.row_idx].ig + 1)
                /\ pc' = "ig_record"
           ELSE /\ UNCHANGED <<published, pending>>
                /\ pc' = IF outcome = "api_error" THEN "ig_error" ELSE "catch"
    /\ UNCHANGED <<ledger, runs, target, posts, idx, stats, images, stats0, unrecorded,
                   all_posted>>

\* Line 114, _post_to_instagram: stage to R2, publish, clean up.  It
\* returns the post id, raises InstagramAPIError, or lets another
\* exception (a staging failure) through its try/finally.
IgPublish ==
    /\ UNCHANGED <<dvars, tvars, mvars, lvars, rvars, cvars>>
    /\ pc = "ig"
    /\ ~post.ig_posted
    /\ \E outcome \in {"ok", "api_error", "other"} :
        /\ outcome = "ok" \/ MayFail
        /\ Failed(outcome # "ok")
        /\ legs' = [legs EXCEPT ![post.row_idx].ig = outcome]
        /\ IF outcome = "ok"
           THEN /\ published' = [published EXCEPT ![post.row_idx].ig = @ + 1]
                /\ pending' = PostId("ig", post.row_idx,
                                     published[post.row_idx].ig + 1)
                /\ pc' = "ig_record"
           ELSE /\ UNCHANGED <<published, pending>>
                /\ pc' = IF outcome = "api_error" THEN "ig_error" ELSE "catch"
    /\ UNCHANGED <<ledger, runs, target, posts, idx, stats, images, stats0, unrecorded,
                   all_posted>>

\* stats["ig_success"] += 1 placed before the status write of line 115.
IgRecord_CountFirst ==
    /\ UNCHANGED <<dvars, tvars, mvars, lvars, rvars, cvars>>
    /\ pc = "ig_record"
    /\ LET args == [NoArgs EXCEPT !.ig_posted = "True", !.ig_post_id = pending]
           n == NumWrites(ledger, post.row_idx, args)
       IN \E done \in 0..n :
            /\ done = n \/ MayFail
            /\ Failed(done # n)
            /\ ledger' = update_post_status(ledger, post.row_idx, args, runs, done)
            /\ IF done = n
               THEN /\ stats' = Bump(stats, "ig_success")
                    /\ legs' = [legs EXCEPT ![post.row_idx].ig_rec = "ok"]
                    /\ pc' = "x"
               ELSE /\ stats' = Bump(stats, "ig_success")
                    /\ legs' = [legs EXCEPT ![post.row_idx].ig_rec = "fail"]
                    /\ pc' = "catch"
    /\ pending' = ""
    /\ unrecorded' =
          IF ledger'[post.row_idx - 1].ig_posted = "TRUE" THEN unrecorded
          ELSE unrecorded \cup {[row_idx |-> post.row_idx, platform |-> "ig",
                                 cause |-> "write"]}
    /\ UNCHANGED <<runs, target, posts, idx, images, published, stats0,
                   all_posted>>

\* Lines 115-118: record the Instagram success, then count it.  A ledger
\* failure is no InstagramAPIError: it leaves _process_post.
IgRecord ==
    /\ UNCHANGED <<dvars, tvars, mvars, lvars, rvars, cvars>>
    /\ pc = "ig_record"
    /\ LET args == [NoArgs EXCEPT !.ig_posted = "True", !.ig_post_id = pending]
           n == NumWrites(ledger, post.row_idx, args)
       IN \E done \in 0..n :
            /\ done = n \/ MayFail
            /\ Failed(done # n)
            /\ ledger' = update_post_status(ledger, post.row_idx, args, runs, done)
            /\ IF done = n
               THEN /\ stats' = Bump(stats, "ig_success")
                    /\ legs' = [legs EXCEPT ![post.row_idx].ig_rec = "ok"]
                    /\ pc' = "x"
               ELSE /\ stats' = stats
                    /\ legs' = [legs EXCEPT ![post.row_idx].ig_rec = "fail"]
                    /\ pc' = "catch"
    /\ pending' = ""
    /\ unrecorded' =
          IF ledger'[post.row_idx - 1].ig_posted = "TRUE" THEN unrecorded
          ELSE unrecorded \cup {[row_idx |-> post.row_idx, platform |-> "ig",
                                 cause |-> "write"]}
    /\ UNCHANGED <<runs, target, posts, idx, images, published, stats0,
                   all_posted>>

\* Lines 120-123: log the Instagram error to the ledger, then count it.
IgError ==
    /\ UNCHANGED <<dvars, tvars, mvars, lvars, rvars, cvars>>
    /\ pc = "ig_error"
    /\ LET args == [NoArgs EXCEPT !.error_log = "Instagram"]
           n == NumWrites(ledger, post.row_idx, args)
       IN \E done \in 0..n :
            /\ done = n \/ MayFail
            /\ Failed(done # n)
            /\ ledger' = update_post_status(ledger, post.row_idx, args, runs, done)
            /\ IF done = n
               THEN /\ stats' = Bump(stats, "errors")
                    /\ legs' = [legs EXCEPT ![post.row_idx].ig_rec = "ok"]
                    /\ pc' = "x"
               ELSE /\ stats' = stats
                    /\ legs' = [legs EXCEPT ![post.row_idx].ig_rec = "fail"]
                    /\ pc' = "catch"
    /\ UNCHANGED <<runs, target, posts, idx, images, pending, published, unrecorded, stats0,
                   all_posted>>

\* Line 126: already posted to X.
XSkip ==
    /\ UNCHANGED <<dvars, tvars, mvars, lvars, rvars, cvars>>
    /\ pc = "x"
    /\ post.x_posted
    /\ pc' = "item_ok"
    /\ UNCHANGED <<ledger, runs, target, posts, idx, stats, images, pending,
                   published, unrecorded, legs, stats0, faults,
                   all_posted>>

\* Line 128, _post_to_x -> XClient.post_with_images: returns the tweet id,
\* raises XAPIError (create_tweet), or lets the exception of a media upload
\* through (upload_media is outside the try).
XPublish ==
    /\ UNCHANGED <<dvars, tvars, mvars, lvars, rvars, cvars>>
    /\ pc = "x"
    /\ ~post.x_posted
    /\ \E outcome \in {"ok", "api_error", "other"} :
        /\ outcome = "ok" \/ MayFail
        /\ Failed(outcome # "ok")
        /\ legs' = [legs EXCEPT ![post.row_idx].x = outcome]
        /\ IF outcome = "ok"
           THEN /\ published' = [published EXCEPT ![post.row_idx].x = @ + 1]
                /\ pending' = PostId("x", post.row_idx,
                                     published[post.row_idx].x + 1)
                /\ pc' = "x_record"
           ELSE /\ UNCHANGED <<published, pending>>
                /\ pc' = IF outcome = "api_error" THEN "x_error" ELSE "catch"
    /\ UNCHANGED <<ledger, runs, target, posts, idx, stats, images, stats0, unrecorded,
                   all_posted>>

\* Lines 129-133.
XRecord ==
    /\ UNCHANGED <<dvars, tvars, mvars, lvars, rvars, cvars>>
    /\ pc = "x_record"
    /\ LET args == [NoArgs EXCEPT !.x_posted = "True", !.x_post_id = pending]
           n == NumWrites(ledger, post.row_idx, args)
       IN \E done \in 0..n :
            /\ done = n \/ MayFail
            /\ Failed(done # n)
            /\ ledger' = update_post_status(ledger, post.row_idx, args, runs, done)
            /\ IF done = n
               THEN /\ stats' = Bump(stats, "x_success")
                    /\ legs' = [legs EXCEPT ![post.row_idx].x_rec = "ok"]
                    /\ pc' = "item_ok"
               ELSE /\ stats' = stats
                    /\ legs' = [legs EXCEPT ![post.row_idx].x_rec = "fail"]
                    /\ pc' = "catch"
    /\ pending' = ""
    /\ unrecorded' =
          IF ledger'[post.row_idx - 1].x_posted = "TRUE" THEN unrecorded
          ELSE unrecorded \cup {[row_idx |-> post.row_idx, platform |-> "x",
                                 cause |-> "write"]}
    /\ UNCHANGED <<runs, target, posts, idx, images, published, stats0,
                   all_posted>>

\* Lines 134-137.
XError ==
    /\ UNCHANGED <<dvars, tvars, mvars, lvars, rvars, cvars>>
    /\ pc = "x_error"
    /\ LET args == [NoArgs EXCEPT !.error_log = "X"]
           n == NumWrites(ledger, post.row_idx, args)
       IN \E done \in 0..n :
            /\ done = n \/ MayFail
            /\ Failed(done # n)
            /\ ledger' = update_post_status(ledger, post.row_idx, args, runs, done)
            /\ IF done = n
               THEN /\ stats' = Bump(stats, "errors")
                    /\ legs' = [legs EXCEPT ![post.row_idx].x_rec = "ok"]
                    /\ pc' = "item_ok"
               ELSE /\ stats' = stats
                    /\ legs' = [legs EXCEPT ![post.row_idx].x_rec = "fail"]
                    /\ pc' = "catch"
    /\ UNCHANGED <<runs, target, posts, idx, images, pending, published, unrecorded, stats0,
                   all_posted>>

\* _process_post returned and stats["processed"] is left as it was.
ItemOk_Uncounted ==
    /\ UNCHANGED <<dvars, tvars, mvars, lvars, rvars, cvars>>
    /\ pc = "item_ok"
    /\ stats' = stats
    /\ legs' = [legs EXCEPT ![post.row_idx].ended = "ok",
                            ![post.row_idx].d = Delta(stats', stats0)]
    /\ idx' = idx + 1
    /\ images' = 0
    /\ pc' = "loop"
    /\ UNCHANGED <<ledger, runs, target, posts, pending, published, unrecorded,
                   stats0, faults, all_posted>>

\* Lines 63-64: _process_post returned.
ItemOk ==
    /\ UNCHANGED <<dvars, tvars, mvars, lvars, rvars, cvars>>
    /\ pc = "item_ok"
    /\ stats' = Bump(stats, "processed")
    /\ legs' = [legs EXCEPT ![post.row_idx].ended = "ok",
                            ![post.row_idx].d = Delta(stats', stats0)]
    /\ idx' = idx + 1
    /\ images' = 0
    /\ pc' = "loop"
    /\ UNCHANGED <<ledger, runs, target, posts, pending, published, unrecorded,
                   stats0, faults, all_posted>>

\* Lines 65-70: an exception left _process_post.  It is counted, then
\* logged to the ledger; that write is inside no try, so its failure
\* leaves run_daily_post.
Catch ==
    /\ UNCHANGED <<dvars, tvars, mvars, lvars, rvars, cvars>>
    /\ pc = "catch"
    /\ stats' = Bump(stats, "errors")
    /\ LET args == [NoArgs EXCEPT !.error_log = "Processing error"]
           n == NumWrites(ledger, post.row_idx, args)
       IN \E done \in 0..n :
            /\ done = n \/ MayFail
            /\ Failed(done # n)
            /\ ledger' = update_post_status(ledger, post.row_idx, args, runs, done)
            /\ IF done = n
               THEN /\ legs' = [legs EXCEPT ![post.row_idx].ended = "caught",
                                       ![post.row_idx].d = Delta(stats', stats0)]
                    /\ idx' = idx + 1
                    /\ pc' = "loop"
               ELSE /\ legs' = [legs EXCEPT ![post.row_idx].ended = "aborted",
                                       ![post.row_idx].d = Delta(stats', stats0)]
                    /\ idx' = idx
                    /\ pc' = "aborted"
    /\ pending' = ""
    /\ images' = 0
    /\ UNCHANGED <<runs, target, posts, published, unrecorded, stats0, all_posted>>

\* Lines 72-77: the loop is over, the stats are returned.
Finish ==
    /\ UNCHANGED <<dvars, tvars, mvars, lvars, rvars, cvars>>
    /\ pc = "loop"
    /\ idx > Len(posts)
    /\ pc' = "returned"
    /\ UNCHANGED <<ledger, runs, target, posts, idx, stats, images, pending,
                   published, unrecorded, legs, stats0, faults,
                   all_posted>>

\* The process dies only once the status write of the publish is through.
Crash_AfterWrite ==
    /\ UNCHANGED <<dvars, tvars, mvars, lvars, rvars, cvars>>
    /\ pc \in {"ig_record", "x_record"}
    /\ MayFail
    /\ Failed(TRUE)
    /\ LET args == IF pc = "ig_record"
                   THEN [NoArgs EXCEPT !.ig_posted = "True", !.ig_post_id = pending]
                   ELSE [NoArgs EXCEPT !.x_posted = "True", !.x_post_id = pending]
       IN ledger' = update_post_status(ledger, post.row_idx, args, runs,
                                       NumWrites(ledger, post.row_idx, args))
    /\ unrecorded' = unrecorded \cup
                       {[row_idx |-> post.row_idx,
                         platform |-> IF pc = "ig_record" THEN "ig" ELSE "x",
                         cause |-> "crash"]}
    /\ pc' = "crashed"
    /\ posts' = <<>>
    /\ idx' = 1
    /\ stats' = ZeroStats
    /\ stats0' = ZeroStats
    /\ images' = 0
    /\ pending' = ""
    /\ legs' = [r \in RowIdxs |-> NoLeg]
    /\ UNCHANGED <<runs, target, published, all_posted>>

\* The process dies in the middle of a run (the runner is stopped, the
\* job times out).  What it held in memory is gone; the ledger and the
\* posts made on the platforms stay.
Crash ==
    /\ UNCHANGED <<dvars, tvars, mvars, lvars, rvars, cvars>>
    /\ pc \in {"loop", "ig", "ig_record", "ig_error", "x", "x_record",
               "x_error", "item_ok", "catch"}
    /\ MayFail
    /\ Failed(TRUE)
    /\ unrecorded' =
          IF pc \in {"ig_record", "x_record"}
          THEN unrecorded \cup
                 {[row_idx |-> post.row_idx,
                   platform |-> IF pc = "ig_record" THEN "ig" ELSE "x",
                   cause |-> "crash"]}
          ELSE unrecorded
    /\ pc' = "crashed"
    /\ posts' = <<>>
    /\ idx' = 1
    /\ stats' = ZeroStats
    /\ stats0' = ZeroStats
    /\ images' = 0
    /\ pending' = ""
    /\ legs' = [r \in RowIdxs |-> NoLeg]
    /\ UNCHANGED <<ledger, runs, target, published, all_posted>>

PNext ==
    \/ StartRun \/ Acquire
    \/ IgSkip \/ IgPublish \/ IgRecord \/ IgError
    \/ XSkip \/ XPublish \/ XRecord \/ XError
    \/ ItemOk \/ Catch \/ Finish

(***************************************************************************)
(* get_posts_for_date on any sheet content: the rows an operator can leave *)
(* in the sheet (short rows, blank or malformed dates, flags typed by      *)
(* hand), and any target datetime.                                         *)
(***************************************************************************)
SheetRow(n, sc, sk, ig, x) ==
    [ len |-> n, sched |-> sc, skip |-> sk,
      ig_posted |-> ig, ig_post_id |-> "",
      x_posted |-> x, x_post_id |-> "", error_log |-> <<>> ]

SheetRows ==
    { SheetRow(ERROR_LOG + 1, sc, sk, ig, x) :
        sc \in {<<>>, <<" ">>, <<"D1">>, <<"D1", " ", "time">>, <<"D2">>,
                <<"junk">>},
        sk \in {"", "TRUE", "true"},
        ig \in {"", "TRUE"},
        x \in {"", "TRUE"} }
    \cup { SheetRow(SCHEDULED_DATE, <<>>, "", "", ""),
           SheetRow(SKIP, <<"D1">>, "", "", ""),
           SheetRow(IG_POSTED, <<"D1">>, "TRUE", "", ""),
           SheetRow(IG_POSTED, <<"D1">>, "", "", "") }

NoCall == [exc |-> "not called", posts |-> <<>>]

DIdle ==
    /\ sheet = <<>>
    /\ due_at = [date |-> "D1", time |-> "am"]
    /\ due = NoCall

DInit ==
    /\ sheet \in Ledgers(SheetRows)
    /\ due_at \in [date : Dates, time : TimesOfDay]
    /\ due = NoCall

ListDue ==
    /\ UNCHANGED <<pvars, tvars, mvars, lvars, rvars, cvars>>
    /\ due = NoCall
    /\ due' = get_posts_for_date(sheet, due_at)
    /\ UNCHANGED <<sheet, due_at>>

DNext == ListDue

(***************************************************************************)
(* TokenManager (token_manager.py).  Time is counted in ticks, Day ticks   *)
(* to the day.                                                             *)
(***************************************************************************)
Day == 2
MaxTicks == 2
MaxTokens == 2
Now0 == 10
LapseDays == 41
MaxCalls == 2
EXPIRY_THRESHOLD_DAYS == 20

Absent == [kind |-> "absent"]
Record(token, has_expiry, at, updated) ==
    [ kind |-> "record", access_token |-> token, has_expiry |-> has_expiry,
      expires_at |-> at, updated_at |-> updated ]

ConfigToken == "env"

NoneDays == [some |-> FALSE, ticks |-> 0]
Ticks(t) == [some |-> TRUE, ticks |-> t]

\* R2Storage.get_json: the stored object, or None when there is none.
get_json(store) == store

\* _save_token writing no expires_at.
save_token_NoExpiry(token, expires_in, now_) ==
    Record(token, FALSE, 0, now_)

\* _save_token writing the configured token in place of the one given.
save_token_Configured(token, expires_in, now_) ==
    Record(ConfigToken, TRUE, now_ + expires_in, now_)

\* _save_token, lines 133-142 (expires_in_seconds is a number here).
save_token(token, expires_in, now_) ==
    Record(token, TRUE, now_ + expires_in, now_)

\* _check_expiry answering 0 days where lines 98 and 102 answer None.
check_expiry_UnknownExpired(token, known, store, now_, intro, put_ok) ==
    IF known.some
    THEN [ remaining |-> Ticks(known.ticks - now_), store |-> store,
           introspected |-> FALSE ]
    ELSE IF intro.kind # "expires_at"
    THEN [ remaining |-> Ticks(0), store |-> store, introspected |-> TRUE ]
    ELSE IF intro.ts = 0
    THEN [ remaining |-> Ticks(999 * Day), store |-> store,
           introspected |-> TRUE ]
    ELSE IF ~put_ok
    THEN [ remaining |-> NoneDays, store |-> store, introspected |-> TRUE ]
    ELSE [ remaining |-> Ticks(((intro.ts - now_) \div Day) * Day),
           store |-> save_token(token, intro.ts - now_, now_),
           introspected |-> TRUE ]

\* _check_expiry, lines 64-102: the remaining days (in ticks), the store
\* it leaves and whether it called the debug_token endpoint.
check_expiry(token, known, store, now_, intro, put_ok) ==
    IF known.some
    THEN [ remaining |-> Ticks(known.ticks - now_), store |-> store,
           introspected |-> FALSE ]
    ELSE IF intro.kind # "expires_at"
    THEN [ remaining |-> NoneDays, store |-> store, introspected |-> TRUE ]
    ELSE IF intro.ts = 0
    THEN [ remaining |-> Ticks(999 * Day), store |-> store,
           introspected |-> TRUE ]
    ELSE IF ~put_ok
    THEN [ remaining |-> NoneDays, store |-> store, introspected |-> TRUE ]
    ELSE [ remaining |-> Ticks(((intro.ts - now_) \div Day) * Day),
           store |-> save_token(token, intro.ts - now_, now_),
           introspected |-> TRUE ]

\* The test of line 53 with <= for <.
NearExpiry_Inclusive(remaining) ==
    remaining.some /\ remaining.ticks <= EXPIRY_THRESHOLD_DAYS * Day

\* remaining_days is not None and remaining_days < EXPIRY_THRESHOLD_DAYS
NearExpiry(remaining) ==
    remaining.some /\ remaining.ticks < EXPIRY_THRESHOLD_DAYS * Day

\* Line 62 returning the configured token instead of the loaded one.
fallback_Configured(token) == ConfigToken

\* Line 62: return token.
fallback(token) == token

\* _refresh_token, lines 104-131: (new_token, expires_in); "" is None.
refresh_token(ex) ==
    IF ex.kind = "error"
    THEN [ new_token |-> "", expires_in |-> NoneDays ]
    ELSE [ new_token |-> ex.access_token, expires_in |-> ex.expires_in ]

\* What the debug_token endpoint can answer.
IntroOutcomes ==
    { [kind |-> "error", ts |-> 0], [kind |-> "no_expiry", ts |-> 0],
      [kind |-> "expires_at", ts |-> 0] }
    \cup { [kind |-> "expires_at", ts |-> Now0 + off] :
             off \in { EXPIRY_THRESHOLD_DAYS * Day - 1,
                       EXPIRY_THRESHOLD_DAYS * Day + 1,
                       (EXPIRY_THRESHOLD_DAYS + 1) * Day + 1 } }

\* The debug_token endpoint is asked only when the store holds no expiry
\* (line 69).
Lookups(store) ==
    IF store.kind = "record" /\ store.has_expiry
    THEN { [kind |-> "error", ts |-> 0] }
    ELSE IntroOutcomes

\* What the oauth/access_token endpoint can answer when n tokens have been
\* issued so far: an error, a reply without access_token, a new token
\* without expires_in, a new token good for 60 days, and a new token that
\* expires within the refresh threshold.
ExchangeReplies(n) ==
    { [kind |-> "error", access_token |-> "", expires_in |-> NoneDays],
      [kind |-> "json", access_token |-> "", expires_in |-> NoneDays],
      [kind |-> "json", access_token |-> "tok" \o ToString(n + 1),
       expires_in |-> NoneDays],
      [kind |-> "json", access_token |-> "tok" \o ToString(n + 1),
       expires_in |-> Ticks(60 * Day)],
      [kind |-> "json", access_token |-> "tok" \o ToString(n + 1),
       expires_in |-> Ticks(EXPIRY_THRESHOLD_DAYS * Day - 1)] }

ExchangeOutcomes == ExchangeReplies(issued)

InitialStores ==
    { Absent, Record("old", FALSE, 0, 0) }
    \cup { Record("old", TRUE, Now0 + off, 0) :
             off \in { EXPIRY_THRESHOLD_DAYS * Day,
                       EXPIRY_THRESHOLD_DAYS * Day + 1,
                       60 * Day } }

NoTokenCall ==
    [ op |-> "none", ret |-> "", raised |-> "none", held |-> "",
      exchanged |-> FALSE, exchange |-> "none", fresh |-> "",
      expires_in |-> NoneDays, introspected |-> FALSE, lookup |-> "none",
      remaining |-> NoneDays, before |-> Absent, at |-> Now0 ]

\* What the next call is told of a call.
Summary(call) ==
    [ op |-> call.op, ret |-> call.ret, raised |-> call.raised,
      exchange |-> call.exchange, lookup |-> call.lookup ]

TIdle ==
    /\ stored = Absent
    /\ now = Now0
    /\ issued = 0
    /\ last = NoTokenCall
    /\ prev = Summary(NoTokenCall)
    /\ calls = 0

TInit ==
    /\ stored \in InitialStores
    /\ now = Now0
    /\ issued = 0
    /\ last = NoTokenCall
    /\ prev = Summary(NoTokenCall)
    /\ calls = 0

\* get_valid_token, lines 27-62: the store and the number of issued tokens
\* it leaves, and the record of the call.
get_valid_token(store, now_, n, intro, ex, put1, put2) ==
    LET stored_data == get_json(store)
        token == IF stored_data.kind = "record"
                 THEN stored_data.access_token ELSE ConfigToken
        expires_at == IF stored_data.kind = "record" /\ stored_data.has_expiry
                      THEN Ticks(stored_data.expires_at) ELSE NoneDays
        ce == check_expiry(token, expires_at, store, now_, intro, put1)
        rt == refresh_token(ex)
        call == [ op |-> "get_valid_token", ret |-> fallback(token),
                  raised |-> "none", held |-> token,
                  exchanged |-> NearExpiry(ce.remaining),
                  exchange |-> IF ~NearExpiry(ce.remaining) THEN "none"
                               ELSE IF ex.kind = "error" THEN "error"
                               ELSE IF ex.access_token = "" THEN "no_token"
                               ELSE "token",
                  fresh |-> IF NearExpiry(ce.remaining)
                            THEN rt.new_token ELSE "",
                  expires_in |-> IF NearExpiry(ce.remaining)
                                 THEN rt.expires_in ELSE NoneDays,
                  introspected |-> ce.introspected,
                  lookup |-> IF ce.introspected THEN intro.kind ELSE "none",
                  remaining |-> ce.remaining, before |-> store,
                  at |-> now_ ]
    IN  IF ~NearExpiry(ce.remaining)
        THEN [ stored |-> ce.store, issued |-> n, call |-> call ]
        ELSE IF rt.new_token = ""
        THEN [ stored |-> ce.store, issued |-> n, call |-> call ]
        ELSE IF ~rt.expires_in.some
        THEN \* timedelta(seconds=None) raises TypeError in _save_token
             [ stored |-> ce.store, issued |-> n + 1,
               call |-> [call EXCEPT !.ret = "", !.raised = "TypeError"] ]
        ELSE IF ~put2
        THEN \* put_json failed
             [ stored |-> ce.store, issued |-> n + 1,
               call |-> [call EXCEPT !.ret = "", !.raised = "StorageError"] ]
        ELSE [ stored |-> save_token(rt.new_token, rt.expires_in.ticks, now_),
               issued |-> n + 1,
               call |-> [call EXCEPT !.ret = rt.new_token] ]

\* A call of get_valid_token.
GetValidToken ==
    /\ UNCHANGED <<pvars, dvars, mvars, lvars, rvars, cvars>>
    /\ \E intro \in Lookups(stored), ex \in ExchangeOutcomes,
          put1 \in BOOLEAN, put2 \in BOOLEAN :
         \E g \in {get_valid_token(stored, now, issued, intro, ex, put1, put2)} :
             /\ calls < MaxCalls
             /\ calls' = calls + 1
             /\ g.issued <= MaxTokens
             /\ stored' = g.stored
             /\ issued' = g.issued
             /\ last' = g.call
             /\ prev' = Summary(last)
             /\ now' = now

\* force_refresh, lines 144-151: get_valid_token, then an exchange of the
\* token it returned whatever its remaining days.
ForceRefresh ==
    /\ UNCHANGED <<pvars, dvars, mvars, lvars, rvars, cvars>>
    /\ \E intro \in Lookups(stored), ex1 \in ExchangeOutcomes,
          put1 \in BOOLEAN, put2 \in BOOLEAN, put3 \in BOOLEAN :
         \E g \in {get_valid_token(stored, now, issued, intro, ex1, put1, put2)} :
             \E ex2 \in ExchangeReplies(g.issued) :
               LET rt == refresh_token(ex2)
                   call == [ g.call EXCEPT
                               !.op = "force_refresh",
                               !.held = g.call.ret,
                               !.ret = "",
                               !.exchanged = FALSE,
                               !.exchange = "none",
                               !.fresh = "",
                               !.expires_in = NoneDays ]
                   tried == [ call EXCEPT
                               !.exchanged = TRUE,
                               !.exchange = IF ex2.kind = "error" THEN "error"
                                            ELSE IF ex2.access_token = ""
                                            THEN "no_token" ELSE "token",
                               !.fresh = rt.new_token,
                               !.expires_in = rt.expires_in ]
               IN  /\ calls < MaxCalls
                   /\ calls' = calls + 1
                   /\ prev' = Summary(last)
                   /\ now' = now
                   /\ IF g.call.raised # "none"
                      THEN \* get_valid_token raised at line 146
                           /\ g.issued <= MaxTokens
                           /\ stored' = g.stored
                           /\ issued' = g.issued
                           /\ last' = call
                      ELSE IF rt.new_token = ""
                      THEN /\ g.issued <= MaxTokens
                           /\ stored' = g.stored
                           /\ issued' = g.issued
                           /\ last' = tried
                      ELSE IF ~rt.expires_in.some
                      THEN /\ g.issued < MaxTokens
                           /\ stored' = g.stored
                           /\ issued' = g.issued + 1
                           /\ last' = [tried EXCEPT !.raised = "TypeError"]
                      ELSE IF ~put3
                      THEN /\ g.issued < MaxTokens
                           /\ stored' = g.stored
                           /\ issued' = g.issued + 1
                           /\ last' = [tried EXCEPT !.raised = "StorageError"]
                      ELSE /\ g.issued < MaxTokens
                           /\ stored' = save_token(rt.new_token,
                                                   rt.expires_in.ticks, now)
                           /\ issued' = g.issued + 1
                           /\ last' = [tried EXCEPT !.ret = rt.new_token]

\* Time passes between calls.
Tick ==
    /\ UNCHANGED <<pvars, dvars, mvars, lvars, rvars, cvars>>
    /\ now < Now0 + MaxTicks
    /\ now' = now + 1
    /\ UNCHANGED <<stored, issued, last, prev, calls>>

\* The program is not run for LapseDays days.
Lapse ==
    /\ UNCHANGED <<pvars, dvars, mvars, lvars, rvars, cvars>>
    /\ now < Now0 + MaxTicks
    /\ now' = now + LapseDays * Day
    /\ UNCHANGED <<stored, issued, last, prev, calls>>

TNext == GetValidToken \/ Tick \/ Lapse

FNext == ForceRefresh \/ Tick

(***************************************************************************)
(* Poster._post_to_instagram (poster.py) with its staging in R2, and       *)
(* XClient.post_with_images (x_twitter.py).  An image is its position in   *)
(* the list handed in; the key and the URL of a staged image are that      *)
(* position too.                                                           *)
(***************************************************************************)
MaxImages == 11
INSTAGRAM_MAX_CAROUSEL == 10
X_MAX_IMAGES == 4

\* s[:n]
Take(s, n) == SubSeq(s, 1, IF Len(s) < n THEN Len(s) ELSE n)

Range(s) == { s[i] : i \in 1..Len(s) }

NoOutcome == [kind |-> "none", exc |-> "", posted |-> <<>>]
Returned(posted) == [kind |-> "return", exc |-> "", posted |-> posted]
Raised(exc) == [kind |-> "raise", exc |-> exc, posted |-> <<>>]

\* R2Storage.upload_and_get_url: the object is in the bucket under the key
\* it returns.
upload_and_get_url(bucket, key) == bucket \cup {key}

\* R2Storage.delete
delete(bucket, key) == bucket \ {key}

\* InstagramClient.post_single_image
post_single_image(image_url) == <<image_url>>

\* InstagramClient.post_carousel: the first INSTAGRAM_MAX_CAROUSEL URLs.
post_carousel(urls) == Take(urls, INSTAGRAM_MAX_CAROUSEL)

\* Lines 154-157: the post made of the staged URLs.
instagram_post(urls) ==
    IF Len(urls) = 1 THEN post_single_image(urls[1]) ELSE post_carousel(urls)

\* The except clause of lines 162-165 letting the exception through.
delete_failed_Propagate(outcome_) == Raised("R2DeleteError")

\* Lines 162-165: a failed delete is logged, the result stays.
delete_failed(outcome_) == outcome_

\* x_twitter.py line 73 without the slice.
images_to_post_All(image_contents) == image_contents

\* x_twitter.py line 73: image_contents[:X_MAX_IMAGES]
images_to_post(image_contents) == Take(image_contents, X_MAX_IMAGES)

MInit ==
    /\ mpc = "idle"
    /\ op = "none"
    /\ images_data = <<>>
    /\ r2_keys = <<>>
    /\ image_urls = <<>>
    /\ staged = {}
    /\ released = <<>>
    /\ primary = NoOutcome
    /\ result = NoOutcome
    /\ warnings = 0
    /\ media_ids = <<>>
    /\ mfaults = 0

MayBreak == mfaults < MaxFaults

\* _post_to_instagram is called with the images of an item (at least one,
\* poster.py lines 101-102).
PostToInstagram ==
    /\ UNCHANGED <<pvars, dvars, tvars, lvars, rvars, cvars>>
    /\ mpc = "idle"
    /\ \E n \in 1..MaxImages : images_data' = [i \in 1..n |-> i]
    /\ mpc' = "staging"
    /\ op' = "instagram"
    /\ r2_keys' = <<>>
    /\ image_urls' = <<>>
    /\ staged' = {}
    /\ released' = <<>>
    /\ primary' = NoOutcome
    /\ result' = NoOutcome
    /\ warnings' = 0
    /\ media_ids' = <<>>
    /\ mfaults' = 0

\* Lines 148-151: one turn of the upload loop.
Stage ==
    /\ UNCHANGED <<pvars, dvars, tvars, lvars, rvars, cvars>>
    /\ mpc = "staging"
    /\ Len(r2_keys) < Len(images_data)
    /\ LET key == images_data[Len(r2_keys) + 1]
       IN  \/ /\ r2_keys' = Append(r2_keys, key)
              /\ image_urls' = Append(image_urls, key)
              /\ staged' = upload_and_get_url(staged, key)
              /\ UNCHANGED <<mpc, primary, mfaults>>
           \/ /\ MayBreak
              /\ mfaults' = mfaults + 1
              /\ primary' = Raised("R2UploadError")
              /\ mpc' = "release"
              /\ UNCHANGED <<r2_keys, image_urls, staged>>
    /\ UNCHANGED <<op, images_data, released, result, warnings, media_ids>>

\* Lines 153-157: the post, once every image is staged.
Publish ==
    /\ UNCHANGED <<pvars, dvars, tvars, lvars, rvars, cvars>>
    /\ mpc = "staging"
    /\ Len(r2_keys) = Len(images_data)
    /\ \/ primary' = Returned(instagram_post(image_urls))
       \/ primary' = Raised("InstagramAPIError")
    /\ mpc' = "release"
    /\ UNCHANGED <<op, images_data, r2_keys, image_urls, staged, released,
                   result, warnings, media_ids, mfaults>>

\* Lines 161-165: one turn of the clean-up loop.
Release ==
    /\ UNCHANGED <<pvars, dvars, tvars, lvars, rvars, cvars>>
    /\ mpc = "release"
    /\ Len(released) < Len(r2_keys)
    /\ LET key == r2_keys[Len(released) + 1]
       IN  /\ released' = Append(released, key)
           /\ \/ /\ staged' = delete(staged, key)
                 /\ UNCHANGED <<result, mpc, warnings, mfaults>>
              \/ /\ MayBreak
                 /\ mfaults' = mfaults + 1
                 /\ UNCHANGED staged
                 /\ IF delete_failed(primary) = primary
                    THEN /\ warnings' = warnings + 1
                         /\ UNCHANGED <<result, mpc>>
                    ELSE \* the exception leaves the finally block
                         /\ result' = delete_failed(primary)
                         /\ mpc' = "idle"
                         /\ UNCHANGED warnings
    /\ UNCHANGED <<op, images_data, r2_keys, image_urls, primary, media_ids>>

\* The finally block is done: _post_to_instagram returns or raises.
Leave ==
    /\ UNCHANGED <<pvars, dvars, tvars, lvars, rvars, cvars>>
    /\ mpc = "release"
    /\ Len(released) = Len(r2_keys)
    /\ result' = primary
    /\ mpc' = "idle"
    /\ UNCHANGED <<op, images_data, r2_keys, image_urls, staged, released,
                   primary, warnings, media_ids, mfaults>>

\* post_with_images, lines 72-79: the slice and the warning.
PostWithImages ==
    /\ UNCHANGED <<pvars, dvars, tvars, lvars, rvars, cvars>>
    /\ mpc = "idle"
    /\ \E n \in 1..MaxImages :
         /\ images_data' = [i \in 1..n |-> i]
         /\ warnings' = IF n > X_MAX_IMAGES THEN 1 ELSE 0
    /\ mpc' = "x_upload"
    /\ op' = "x"
    /\ r2_keys' = <<>>
    /\ image_urls' = <<>>
    /\ staged' = {}
    /\ released' = <<>>
    /\ primary' = NoOutcome
    /\ result' = NoOutcome
    /\ media_ids' = <<>>
    /\ mfaults' = 0

\* Lines 82-86 and upload_media: one turn of the upload loop.
UploadMedia ==
    /\ UNCHANGED <<pvars, dvars, tvars, lvars, rvars, cvars>>
    /\ mpc = "x_upload"
    /\ Len(media_ids) < Len(images_to_post(images_data))
    /\ \/ /\ media_ids' =
                Append(media_ids, images_to_post(images_data)[Len(media_ids) + 1])
          /\ UNCHANGED <<mpc, result, mfaults>>
       \/ /\ MayBreak
          /\ mfaults' = mfaults + 1
          /\ result' = Raised("TweepyException")
          /\ mpc' = "idle"
          /\ UNCHANGED media_ids
    /\ UNCHANGED <<op, images_data, r2_keys, image_urls, staged, released,
                   primary, warnings>>

\* Lines 89-95: the tweet with the uploaded media.
CreateTweet ==
    /\ UNCHANGED <<pvars, dvars, tvars, lvars, rvars, cvars>>
    /\ mpc = "x_upload"
    /\ Len(media_ids) = Len(images_to_post(images_data))
    /\ \/ result' = Returned(media_ids)
       \/ result' = Raised("XAPIError")
    /\ mpc' = "idle"
    /\ UNCHANGED <<op, images_data, r2_keys, image_urls, staged, released,
                   primary, warnings, media_ids, mfaults>>

MNext ==
    \/ PostToInstagram
    \/ Stage
    \/ Publish
    \/ Release
    \/ Leave
    \/ PostWithImages
    \/ UploadMedia
    \/ CreateTweet

(***************************************************************************)
(* The error log of one item, character by character: the error_log branch *)
(* of GoogleAPI.update_post_status (google_api.py) and of                  *)
(* NotionDB.update_post_status (notion_db.py).                             *)
(***************************************************************************)
MaxErrors == 3
LongMessage == 1200
RICH_TEXT_LIMIT == 2000
TIMESTAMP_LEN == 16

Fill(c, n) == [i \in 1..n |-> c]

\* datetime.now().strftime("%Y-%m-%d %H:%M"): 16 characters.
timestamp(t) == Fill(t, TIMESTAMP_LEN)

\* f"{timestamp} | {error_log}"
new_entry(t, error_log) == timestamp(t) \o <<" ", "|", " ">> \o error_log

\* f"{current}\n{new_log}" if current else new_log
updated_log(current, entry) ==
    IF current # <<>> THEN current \o <<"\n">> \o entry ELSE entry

\* google_api.py lines 313-319: the cell after the call.
google_error_log(current, t, error_log) ==
    updated_log(current, new_entry(t, error_log))

\* s[-RICH_TEXT_LIMIT:]
KeepLast(s) ==
    IF Len(s) <= RICH_TEXT_LIMIT THEN s
    ELSE SubSeq(s, Len(s) - RICH_TEXT_LIMIT + 1, Len(s))

\* notion_db.py line 158 keeping the last 2000 characters.
notion_error_log_KeepLast(current, t, error_log) ==
    KeepLast(updated_log(current, new_entry(t, error_log)))

\* notion_db.py lines 151-158: the rich text after the call.
notion_error_log(current, t, error_log) ==
    Take(updated_log(current, new_entry(t, error_log)), RICH_TEXT_LIMIT)

\* The messages recorded: an empty one, short ones and long ones.
Messages == { <<>>, <<"I", "G">>, <<"X">>, Fill("e", LongMessage) }

Stamps == {"1", "2"}

LInit ==
    /\ backend \in {"google", "notion"}
    /\ log = <<>>
    /\ entries = <<>>

LIdle ==
    /\ backend = "google"
    /\ log = <<>>
    /\ entries = <<>>

\* GoogleAPI.update_post_status(row_idx, error_log=...)
GoogleRecordError ==
    /\ UNCHANGED <<pvars, dvars, tvars, mvars, rvars, cvars>>
    /\ backend = "google"
    /\ Len(entries) < MaxErrors
    /\ \E t \in Stamps, error_log \in Messages :
         /\ log' = google_error_log(log, t, error_log)
         /\ entries' = Append(entries, new_entry(t, error_log))
    /\ UNCHANGED backend

\* NotionDB.update_post_status(page_id, error_log=...)
NotionRecordError ==
    /\ UNCHANGED <<pvars, dvars, tvars, mvars, rvars, cvars>>
    /\ backend = "notion"
    /\ Len(entries) < MaxErrors
    /\ \E t \in Stamps, error_log \in Messages :
         /\ log' = notion_error_log(log, t, error_log)
         /\ entries' = Append(entries, new_entry(t, error_log))
    /\ UNCHANGED backend

LNext == GoogleRecordError \/ NotionRecordError

(***************************************************************************)
(* Recording a success on either ledger, and recording it again.           *)
(***************************************************************************)
MaxRepeats == 2

\* NotionDB.update_post_status, lines 140-161: the properties that are
\* not None, sent in one pages.update.
notion_update_post_status(pg, args, t) ==
    [ ig_posted |-> IF args.ig_posted # "None"
                    THEN args.ig_posted = "True" ELSE pg.ig_posted,
      ig_post_id |-> IF args.ig_post_id # "None"
                     THEN args.ig_post_id ELSE pg.ig_post_id,
      x_posted |-> IF args.x_posted # "None"
                   THEN args.x_posted = "True" ELSE pg.x_posted,
      x_post_id |-> IF args.x_post_id # "None"
                    THEN args.x_post_id ELSE pg.x_post_id,
      error_log |-> IF args.error_log # "None"
                    THEN notion_error_log(pg.error_log, t, <<args.error_log>>)
                    ELSE pg.error_log ]

\* The arguments of the status write that follows a successful publish
\* (poster.py lines 115-117 and 129-131).
SuccessArgs(platform, post_id) ==
    IF platform = "ig"
    THEN [NoArgs EXCEPT !.ig_posted = "True", !.ig_post_id = post_id]
    ELSE [NoArgs EXCEPT !.x_posted = "True", !.x_post_id = post_id]

Platforms == {"ig", "x"}
PostIds == {"p1", "p2"}

\* Rows and pages as a run can have left them.
BookRows ==
    { FreshRow(<<"D1">>, ""),
      [FreshRow(<<"D1">>, "") EXCEPT !.ig_posted = "TRUE", !.ig_post_id = "p1"],
      [FreshRow(<<"D1">>, "") EXCEPT !.x_posted = "TRUE", !.x_post_id = "p2",
                                     !.error_log = <<[at |-> 0, msg |-> "Instagram"]>>] }

Pages ==
    { [ig_posted |-> FALSE, ig_post_id |-> "", x_posted |-> FALSE,
       x_post_id |-> "", error_log |-> <<>>],
      [ig_posted |-> TRUE, ig_post_id |-> "p1", x_posted |-> FALSE,
       x_post_id |-> "", error_log |-> <<>>],
      [ig_posted |-> FALSE, ig_post_id |-> "", x_posted |-> TRUE,
       x_post_id |-> "p2", error_log |-> new_entry("1", <<"I", "G">>)] }

NoRecord ==
    [ backend |-> "none", row_idx |-> 0, platform |-> "", post_id |-> "",
      times |-> 0 ]

RInit ==
    /\ book \in [1..MaxRows -> BookRows]
    /\ page \in Pages
    /\ applied = NoRecord
    /\ first = [book |-> book, page |-> page]

RIdle ==
    /\ book = <<>>
    /\ page = [ig_posted |-> FALSE, ig_post_id |-> "", x_posted |-> FALSE,
               x_post_id |-> "", error_log |-> <<>>]
    /\ applied = NoRecord
    /\ first = [book |-> book, page |-> page]

\* GoogleAPI.update_post_status(row_idx, <platform>_posted=True,
\* <platform>_post_id=post_id), every update_cell done.  One success is
\* recorded, on any ledger a run can have left.
GoogleRecordSuccess ==
    /\ UNCHANGED <<pvars, dvars, tvars, mvars, lvars, cvars>>
    /\ applied = NoRecord
    /\ \E row_idx \in 2..(Len(book) + 1), platform \in Platforms,
          post_id \in PostIds :
         LET args == SuccessArgs(platform, post_id)
         IN  /\ book' = update_post_status(book, row_idx, args, 0,
                                           NumWrites(book, row_idx, args))
             /\ applied' = [ backend |-> "google", row_idx |-> row_idx,
                             platform |-> platform, post_id |-> post_id,
                             times |-> 1 ]
    /\ first' = [book |-> book', page |-> page]
    /\ UNCHANGED page

\* The same call once more.
GoogleRecordAgain ==
    /\ UNCHANGED <<pvars, dvars, tvars, mvars, lvars, cvars>>
    /\ applied.backend = "google"
    /\ applied.times < MaxRepeats
    /\ LET args == SuccessArgs(applied.platform, applied.post_id)
       IN  book' = update_post_status(book, applied.row_idx, args, 0,
                                      NumWrites(book, applied.row_idx, args))
    /\ applied' = [applied EXCEPT !.times = @ + 1]
    /\ UNCHANGED <<page, first>>

\* NotionDB.update_post_status(page_id, <platform>_posted=True,
\* <platform>_post_id=post_id)
NotionRecordSuccess ==
    /\ UNCHANGED <<pvars, dvars, tvars, mvars, lvars, cvars>>
    /\ applied = NoRecord
    /\ \E platform \in Platforms, post_id \in PostIds :
         /\ page' = notion_update_post_status(page,
                                              SuccessArgs(platform, post_id), "1")
         /\ applied' = [ backend |-> "notion", row_idx |-> 0,
                         platform |-> platform, post_id |-> post_id,
                         times |-> 1 ]
    /\ first' = [book |-> book, page |-> page']
    /\ UNCHANGED book

\* The same call once more.
NotionRecordAgain ==
    /\ UNCHANGED <<pvars, dvars, tvars, mvars, lvars, cvars>>
    /\ applied.backend = "notion"
    /\ applied.times < MaxRepeats
    /\ page' = notion_update_post_status(
                   page, SuccessArgs(applied.platform, applied.post_id), "2")
    /\ applied' = [applied EXCEPT !.times = @ + 1]
    /\ UNCHANGED <<book, first>>

RNext ==
    \/ GoogleRecordSuccess
    \/ GoogleRecordAgain
    \/ NotionRecordSuccess
    \/ NotionRecordAgain

(***************************************************************************)
(* generate_caption (poster.py lines 16-29).  A text is a sequence of      *)
(* tokens, " " being white space and "LF" a line feed; None is the         *)
(* one-token sequence that no text is.                                     *)
(***************************************************************************)
MaxText == 3

None == <<"None">>
Texts == UNION { [1..n -> {" ", "a"}] : n \in 0..MaxText }
DefaultTags == <<"#default">>

\* The text that follows the work name in a caption (line 23),
\* "no kibori desu!": "is a wood carving of ...".
SUFFIX == "no kibori desu!"

\* str.lstrip(), str.rstrip(), str.strip()
RECURSIVE lstrip(_)
lstrip(s) == IF s # <<>> /\ Head(s) = " " THEN lstrip(Tail(s)) ELSE s

RECURSIVE rstrip(_)
rstrip(s) ==
    IF s # <<>> /\ s[Len(s)] = " " THEN rstrip(SubSeq(s, 1, Len(s) - 1)) ELSE s

strip(s) == rstrip(lstrip(s))

\* `x and x.strip()` as a condition: x is neither None nor empty, and
\* has a token that is no white space.
truthy(x) == x # None /\ x # <<>> /\ strip(x) # <<>>

\* generate_caption that takes the custom caption and the work name as
\* given, without strip().
generate_caption_NoStrip(work_name, custom_caption, tags, default_tags) ==
    LET caption0 == IF truthy(custom_caption) THEN custom_caption
                    ELSE IF truthy(work_name)
                         THEN work_name \o <<SUFFIX>>
                         ELSE <<>>
        final_tags == IF truthy(tags) THEN strip(tags) ELSE default_tags
    IN  IF caption0 # <<>> THEN caption0 \o <<"LF", "LF">> \o final_tags
        ELSE final_tags

generate_caption(work_name, custom_caption, tags, default_tags) ==
    LET caption0 == IF truthy(custom_caption) THEN strip(custom_caption)
                    ELSE IF truthy(work_name)
                         THEN strip(work_name) \o <<SUFFIX>>
                         ELSE <<>>
        final_tags == IF truthy(tags) THEN strip(tags) ELSE default_tags
    IN  IF caption0 # <<>> THEN caption0 \o <<"LF", "LF">> \o final_tags
        ELSE final_tags

NoRequest == [work_name |-> None, custom_caption |-> None, tags |-> None,
              default_tags |-> <<>>]

CIdle ==
    /\ request = NoRequest
    /\ caption = None

\* The cells of an item, as the ledger can hold them.
CInit ==
    /\ request \in [work_name : Texts \cup {None}, custom_caption : Texts \cup {None},
                    tags : Texts \cup {None}, default_tags : {DefaultTags}]
    /\ caption = None

\* _process_post lines 87-92: the caption of an item, from its cells.
GenerateCaption ==
    /\ UNCHANGED <<pvars, dvars, tvars, mvars, lvars, rvars>>
    /\ caption = None
    /\ request # NoRequest
    /\ caption' = generate_caption(request.work_name, request.custom_caption,
                                   request.tags, request.default_tags)
    /\ UNCHANGED request

CNext == GenerateCaption

(***************************************************************************)
(* Specifications.                                                         *)
(***************************************************************************)
vars == <<pvars, dvars, tvars, mvars, lvars, rvars, cvars>>

PIdle ==
    /\ ledger = <<>>
    /\ pc = "idle"
    /\ runs = MaxRuns
    /\ target = "D1"
    /\ posts = <<>>
    /\ idx = 1
    /\ stats = ZeroStats
    /\ images = 0
    /\ pending = ""
    /\ published = [r \in RowIdxs |-> [ig |-> 0, x |-> 0]]
    /\ legs = [r \in RowIdxs |-> NoLeg]
    /\ stats0 = ZeroStats
    /\ faults = 0
    /\ unrecorded = {}
    /\ all_posted = FALSE

\* The daily run.
Init == PInit /\ DIdle /\ TIdle /\ MInit /\ LIdle /\ RIdle /\ CIdle
Next == PNext
Spec == Init /\ [][Next]_vars

\* Listing the due posts of any sheet.
InitDue == PIdle /\ DInit /\ TIdle /\ MInit /\ LIdle /\ RIdle /\ CIdle
NextDue == DNext
SpecDue == InitDue /\ [][NextDue]_vars

\* The token manager.
InitToken == PIdle /\ DIdle /\ TInit /\ MInit /\ LIdle /\ RIdle /\ CIdle
NextToken == TNext
SpecToken == InitToken /\ [][NextToken]_vars

\* The operator's forced refresh.
InitForce == PIdle /\ DIdle /\ TInit /\ MInit /\ LIdle /\ RIdle /\ CIdle
NextForce == FNext
SpecForce == InitForce /\ [][NextForce]_vars

\* Posting the images of one item to Instagram or to X.
InitMedia == PIdle /\ DIdle /\ TIdle /\ MInit /\ LIdle /\ RIdle /\ CIdle
NextMedia == MNext
SpecMedia == InitMedia /\ [][NextMedia]_vars

\* Recording errors on one item.
InitLog == PIdle /\ DIdle /\ TIdle /\ MInit /\ LInit /\ RIdle /\ CIdle
NextLog == LNext
SpecLog == InitLog /\ [][NextLog]_vars

\* Recording a success and recording it again.
InitRecord == PIdle /\ DIdle /\ TIdle /\ MInit /\ LIdle /\ RInit /\ CIdle
NextRecord == RNext
SpecRecord == InitRecord /\ [][NextRecord]_vars

\* Calls of get_valid_token and of force_refresh at one time of day.
InitRefresh == InitToken
NextRefresh == GetValidToken \/ ForceRefresh
SpecRefresh == InitRefresh /\ [][NextRefresh]_vars

\* The caption of an item, from any cells.
InitCaption == PIdle /\ DIdle /\ TIdle /\ MInit /\ LIdle /\ RIdle /\ CInit
NextCaption == CNext
SpecCaption == InitCaption /\ [][NextCaption]_vars

\* The daily run on a ledger of rows due on the first date, where the
\* process may also die in the middle of a run.
InitCrash == Init /\ \A k \in 1..Len(ledger) : ledger[k] = FreshRow(<<"D1">>, "")
NextCrash == PNext \/ Crash
SpecCrash == InitCrash /\ [][NextCrash]_vars

(***************************************************************************)
(* Properties of the daily run (specification Spec).                       *)
(***************************************************************************)
\* The post listed for the row in this run.
Listed(r) == \E k \in 1..Len(posts) : posts[k].row_idx = r
PostFor(r) == posts[CHOOSE k \in 1..Len(posts) : posts[k].row_idx = r]

\* The item of the row has left the for loop body in this run.
Ended(r) == Listed(r) /\ legs[r].ended # "no"

\* C1: for a due item posted on neither platform whose Instagram publish
\* raised InstagramAPIError, the X publisher is still invoked in the same
\* run, and when the X publish succeeds the ledger holds x_posted = TRUE
\* with the X post id and the item added 1 to errors, 1 to x_success and
\* nothing to ig_success.
C1_PartialFailureIsolation ==
    \A r \in RowIdxs :
        ( /\ Ended(r)
          /\ ~PostFor(r).ig_posted /\ ~PostFor(r).x_posted
          /\ legs[r].ig = "api_error" )
        => /\ legs[r].x # "none"
           /\ legs[r].x = "ok" =>
                /\ ledger[r - 1].x_posted = "TRUE"
                /\ ledger[r - 1].x_post_id = PostId("x", r, published[r].x)
                /\ legs[r].d.errors = 1
                /\ legs[r].d.x_success = 1
                /\ legs[r].d.ig_success = 0

\* C2: for every due item with x_posted false whose media was acquired,
\* the X publish is attempted however the Instagram leg ended.
C2_XAlwaysAttempted ==
    \A r \in RowIdxs :
        (Ended(r) /\ legs[r].acquired = "ok" /\ ~PostFor(r).x_posted)
        => legs[r].x # "none"

\* C3: run_daily_post never ends by an exception, and when it has returned
\* the statistics every item of the due list has been attempted.
C3_RunAlwaysReturns ==
    /\ pc # "aborted"
    /\ pc = "returned" => \A k \in 1..Len(posts) : Ended(posts[k].row_idx)

\* C4: an exception that leaves _process_post is caught at the item
\* boundary: errors is incremented, an entry is appended to the error log
\* of the item and the loop goes on to the next item.
C4_CaughtAtItemBoundary ==
    [][ pc = "catch" =>
          /\ stats'.errors = stats.errors + 1
          /\ Len(ledger'[post.row_idx - 1].error_log)
                = Len(ledger[post.row_idx - 1].error_log) + 1
          /\ pc' = "loop"
          /\ idx' = idx + 1 ]_vars

\* C5: a run started when every row scheduled for its date is already
\* posted on both platforms downloads nothing and invokes no publisher.
C5_SecondRunIdle ==
    (pc # "idle" /\ all_posted) =>
        \A r \in RowIdxs :
            /\ legs[r].acquired = "none"
            /\ legs[r].ig = "none"
            /\ legs[r].x = "none"

\* A second run has returned for a date whose row the first run posted on
\* both platforms.
C5_Witness ==
    /\ runs = 2
    /\ pc = "returned"
    /\ all_posted
    /\ \E k \in 1..Len(ledger) :
          /\ ScheduledOn(ledger[k], target)
          /\ published[k + 1].ig = 1
          /\ published[k + 1].x = 1
          /\ BothPosted(ledger[k])

\* The posted flag of the row has gone from blank to TRUE.
Transitions(k, field) == IF ledger[k][field] = "TRUE" THEN 1 ELSE 0

Flagged(row, col, field) == row.len > col /\ upper(row[field]) = "TRUE"

\* The rows the call has to return: scheduled for the date (date part
\* only), not flagged skip, not posted on both platforms.
DueRows(data, d) ==
    { k \in 1..Len(data) :
        /\ ScheduledOn(data[k], d)
        /\ ~Flagged(data[k], SKIP, "skip")
        /\ ~( /\ Flagged(data[k], IG_POSTED, "ig_posted")
              /\ Flagged(data[k], X_POSTED, "x_posted") ) }

\* C7: get_posts_for_date returns exactly the rows scheduled for the date
\* (times of day ignored), not flagged skip and not posted on both
\* platforms, each once, with the posted flags of the ledger.
C7_ListsExactlyTheDue ==
    due # NoCall =>
        /\ due.exc = "none"
        /\ { due.posts[i].row_idx - 1 : i \in 1..Len(due.posts) }
              = DueRows(sheet, due_at.date)
        /\ Len(due.posts) = Cardinality(DueRows(sheet, due_at.date))
        /\ \A i \in 1..Len(due.posts) :
              LET row == sheet[due.posts[i].row_idx - 1]
              IN  /\ due.posts[i].ig_posted
                        = Flagged(row, IG_POSTED, "ig_posted")
                  /\ due.posts[i].x_posted
                        = Flagged(row, X_POSTED, "x_posted")

(***************************************************************************)
(* Properties of the token manager (specification SpecToken).              *)
(***************************************************************************)
Called == last.op = "get_valid_token"

\* The exchange endpoint was called and gave no token: a transport or
\* HTTP error, or a reply without access_token.
ExchangeFailed == last.exchanged /\ last.exchange \in {"error", "no_token"}

\* C8: get_valid_token calls the exchange endpoint if and only if the
\* remaining days it computed are fewer than 20; at 20 days or more it
\* calls no exchange, returns the token it loaded and a refresh persists
\* nothing.
C8_RefreshIffBelowThreshold ==
    Called =>
        /\ (last.before.kind = "record" /\ last.before.has_expiry)
              => last.remaining = Ticks(last.before.expires_at - last.at)
        /\ last.exchanged <=>
              ( /\ last.remaining.some
                /\ last.remaining.ticks < EXPIRY_THRESHOLD_DAYS * Day )
        /\ ~last.exchanged =>
              /\ last.raised = "none"
              /\ last.ret = last.held
              /\ \/ stored = last.before
                 \/ /\ last.introspected
                    /\ stored.kind = "record"
                    /\ stored.access_token = last.held

\* A call made exactly 20 days before the stored expiry: no exchange.
C8_Witness ==
    /\ Called
    /\ last.before.kind = "record"
    /\ last.before.has_expiry
    /\ last.before.expires_at - last.at = EXPIRY_THRESHOLD_DAYS * Day
    /\ ~last.exchanged
    /\ last.ret = "old"

\* C9: get_valid_token never raises and always returns a token.
C9_NeverFails ==
    Called => (last.raised = "none" /\ last.ret # "")

\* C10: when the token is near expiry and the exchange fails,
\* get_valid_token returns the token it held before the attempt (that of
\* the stored record if there is one, else the configured one) and does
\* not raise.
C10_RefreshFailureKeepsToken ==
    (Called /\ ExchangeFailed) =>
        /\ last.raised = "none"
        /\ last.ret = IF last.before.kind = "record"
                      THEN last.before.access_token ELSE ConfigToken

\* A near-expiry call on a stored token whose exchange failed.
C10_Witness ==
    /\ Called
    /\ ExchangeFailed
    /\ last.exchange = "error"
    /\ last.before.kind = "record"
    /\ last.ret = "old"
    /\ last.raised = "none"

\* The call before the last one was a get_valid_token whose exchange gave
\* a new token that was persisted and returned.
RefreshedBefore ==
    /\ prev.op = "get_valid_token"
    /\ prev.exchange = "token"
    /\ prev.raised = "none"

C12_RefreshYieldsValid ==
    (Called /\ last.exchange = "token") =>
        /\ last.raised = "none"
        /\ last.ret = last.fresh
        /\ stored = Record(last.fresh, TRUE,
                           last.at + last.expires_in.ticks, last.at)
        /\ ~NearExpiry(Ticks(stored.expires_at - last.at))

\* C13: whenever get_valid_token obtains an expiry from the introspection
\* endpoint, the never-expires reply included, the token and the expiry
\* are persisted, and the following get_valid_token call makes no
\* introspection call.
C13_LookupPersisted ==
    /\ (Called /\ last.lookup = "expires_at") =>
          /\ stored.kind = "record"
          /\ stored.has_expiry
    /\ (Called /\ prev.op = "get_valid_token" /\ prev.lookup = "expires_at")
          => ~last.introspected

\* C14: with no stored expiry and an introspection call that fails or
\* reports no expiry, get_valid_token makes no exchange call, leaves the
\* stored record as it was and returns the token it loaded: the stored
\* one, or the configured one when there is no stored record.
C14_UnknownStaysUnknown ==
    (Called /\ last.lookup \in {"error", "no_expiry"}) =>
        /\ ~last.remaining.some
        /\ ~last.exchanged
        /\ stored = last.before
        /\ last.raised = "none"
        /\ last.ret = IF last.before.kind = "record"
                      THEN last.before.access_token ELSE ConfigToken

\* No stored record, introspection reports no expiry: the configured token.
C14_Witness ==
    /\ Called
    /\ last.lookup = "no_expiry"
    /\ last.before = Absent
    /\ stored = Absent
    /\ last.ret = ConfigToken
    /\ ~last.exchanged

Forced == last.op = "force_refresh"

\* C15: force_refresh returns None without raising when its exchange
\* fails; when its exchange yields a token it returns that token and the
\* stored record holds exactly the returned token.
C15_ForceRefreshOutcome ==
    Forced =>
        /\ last.exchange \in {"error", "no_token"} =>
              (last.ret = "" /\ last.raised = "none")
        /\ last.exchange = "token" =>
              /\ last.raised = "none"
              /\ last.ret = last.fresh
              /\ stored.kind = "record"
              /\ stored.access_token = last.ret

\* _post_to_instagram has returned or raised.
InstagramDone == op = "instagram" /\ mpc = "idle"

\* C16: every object staged during an Instagram publish attempt has had
\* its delete called by the time _post_to_instagram returns or raises,
\* whether the post succeeded, the post failed or an upload failed part
\* way; a failed delete is logged, leaves the outcome of the try block as
\* it was and does not stop the remaining deletes.
C16_StagedAreReleased ==
    /\ op = "instagram" => staged \subseteq Range(r2_keys)
    /\ InstagramDone =>
          /\ released = r2_keys
          /\ result = primary
          /\ result.kind \in {"return", "raise"}
          /\ Cardinality(staged) = warnings

\* An upload failed after objects were staged and one of the deletes
\* failed too: the upload error is raised and every key was released.
C16_Witness ==
    /\ InstagramDone
    /\ result = Raised("R2UploadError")
    /\ Len(r2_keys) >= 1
    /\ Len(r2_keys) < Len(images_data)
    /\ released = r2_keys
    /\ warnings = 1

\* post_with_images has returned or raised.
XDone == op = "x" /\ mpc = "idle"

LoggedNow(r) ==
    Cardinality({ i \in 1..Len(ledger[r - 1].error_log) :
                    ledger[r - 1].error_log[i].at = runs })

\* C18: when the acquisition of a due item's media fails, no publisher is
\* invoked for the item on either platform, an error entry is recorded on
\* the item, errors is incremented once and the run goes on to the next
\* item.
C18_AcquisitionFailureSkipsItem ==
    \A r \in RowIdxs :
        (Ended(r) /\ legs[r].acquired = "fail")
        => /\ legs[r].ig = "none"
           /\ legs[r].x = "none"
           /\ legs[r].d.errors = 1
           /\ LoggedNow(r) = 1
           /\ legs[r].ended = "caught"

Fails(end) == IF end \in {"api_error", "other"} THEN 1 ELSE 0

\* Publish attempts of the item that failed in the current run.
FailedAttempts(r) == Fails(legs[r].ig) + Fails(legs[r].x)

\* Failures of the item that are not failed publish attempts: a failed
\* acquisition, and a successful publish whose status write failed.
OtherFailures(r) ==
    (IF legs[r].acquired = "fail" THEN 1 ELSE 0)
    + (IF legs[r].ig = "ok" /\ legs[r].ig_rec = "fail" THEN 1 ELSE 0)
    + (IF legs[r].x = "ok" /\ legs[r].x_rec = "fail" THEN 1 ELSE 0)

RECURSIVE JoinLines(_)
\* "\n".join(lines)
JoinLines(lines) ==
    IF lines = <<>> THEN <<>>
    ELSE IF Len(lines) = 1 THEN lines[1]
    ELSE JoinLines(SubSeq(lines, 1, Len(lines) - 1))
            \o <<"\n">> \o lines[Len(lines)]

\* C20: recording an error is append-only.  After any sequence of
\* update_post_status(error_log=...) calls the stored log is the entries
\* recorded so far, each "timestamp | message", unaltered, in the order
\* of the calls and one per line; the Notion ledger stores the first 2000
\* characters of that.
C20_ErrorLogAppendOnly ==
    /\ backend = "google" => log = JoinLines(entries)
    /\ backend = "notion" =>
          log = Take(JoinLines(entries), RICH_TEXT_LIMIT)

\* A second long entry that runs into the capacity of the Notion field:
\* the first entry is whole and the second is cut at 2000 characters.
C20_Witness ==
    /\ backend = "notion"
    /\ Len(entries) = 2
    /\ Len(JoinLines(entries)) > RICH_TEXT_LIMIT
    /\ Len(log) = RICH_TEXT_LIMIT
    /\ SubSeq(log, 1, Len(entries[1])) = entries[1]

\* The posted flag and the post id of the record applied last, as the
\* ledger holds them.
AppliedCells ==
    IF applied.backend = "google"
    THEN IF applied.platform = "ig"
         THEN <<book[applied.row_idx - 1].ig_posted = "TRUE",
                book[applied.row_idx - 1].ig_post_id>>
         ELSE <<book[applied.row_idx - 1].x_posted = "TRUE",
                book[applied.row_idx - 1].x_post_id>>
    ELSE IF applied.platform = "ig"
         THEN <<page.ig_posted, page.ig_post_id>>
         ELSE <<page.x_posted, page.x_post_id>>

\* C21: recording a success sets the posted flag of the platform and
\* stores the post id, and recording the same success again leaves the
\* ledger exactly as the first recording left it.
C21_RecordSuccessIdempotent ==
    applied.times >= 1 =>
        /\ AppliedCells = <<TRUE, applied.post_id>>
        /\ book = first.book
        /\ page = first.page

\* The same success recorded twice on a sheet row that was already posted
\* on the other platform.
C21_Witness ==
    /\ applied.backend = "google"
    /\ applied.times = 2
    /\ applied.platform = "ig"
    /\ book[applied.row_idx - 1].ig_post_id = applied.post_id
    /\ book[applied.row_idx - 1].x_posted = "TRUE"
    /\ book = first.book

\* C22: the items of a run are processed in the order of the list that
\* get_posts_for_date returned, one at a time: every item before the
\* current one has left the loop body and no item after it has been
\* touched; and within an item the X publish is attempted only after the
\* Instagram leg is over, its publish attempted and its outcome written.
C22_ItemsInListOrder ==
    pc # "idle" =>
        \A k \in 1..Len(posts) :
            LET r == posts[k].row_idx
            IN  /\ k < idx => legs[r].ended # "no"
                /\ k > idx => legs[r] = NoLeg
                /\ (k = idx /\ pc = "loop") => legs[r] = NoLeg
                /\ legs[r].x # "none" =>
                      \/ posts[k].ig_posted
                      \/ /\ legs[r].ig \in {"ok", "api_error"}
                         /\ legs[r].ig_rec = "ok"

\* The second of two items is at its X status write: the first item is
\* over and the Instagram leg of the second is recorded.
C22_Witness ==
    /\ Len(posts) = 2
    /\ idx = 2
    /\ pc = "x_record"
    /\ legs[posts[1].row_idx].ended = "ok"
    /\ legs[posts[2].row_idx].ig = "ok"
    /\ legs[posts[2].row_idx].ig_rec = "ok"
    /\ legs[posts[2].row_idx].x = "ok"

\* C25: a due item listed as posted on exactly one platform has only the
\* other platform's publisher invoked.  Listed with ig_posted true and
\* x_posted false it gets no Instagram publish (and so no staging upload),
\* and once its media is acquired it gets an X publish attempt before it
\* leaves the loop; symmetrically for x_posted true and ig_posted false.
C25_OnlyMissingPlatform ==
    pc # "idle" =>
        \A k \in 1..Len(posts) :
            LET r == posts[k].row_idx
                acquired == legs[r].acquired = "ok"
            IN  /\ (posts[k].ig_posted /\ ~posts[k].x_posted) =>
                      /\ legs[r].ig = "none"
                      /\ legs[r].ig_rec = "none"
                      /\ (acquired /\ legs[r].ended # "no") => legs[r].x # "none"
                /\ (posts[k].x_posted /\ ~posts[k].ig_posted) =>
                      /\ legs[r].x = "none"
                      /\ legs[r].x_rec = "none"
                      /\ (acquired /\ legs[r].ended # "no") => legs[r].ig # "none"

\* An item listed as posted on Instagram only went through the run with
\* one publish, on X.
C25_Witness ==
    \E k \in 1..Len(posts) :
        /\ posts[k].ig_posted /\ ~posts[k].x_posted
        /\ legs[posts[k].row_idx].ended = "ok"
        /\ legs[posts[k].row_idx].ig = "none"
        /\ legs[posts[k].row_idx].x = "ok"
        /\ published[posts[k].row_idx] = [ig |-> 1, x |-> 1]

\* C25 as stated: the item gets the other platform's publish attempt,
\* whatever happens to its media.
C25_AlwaysAttempted ==
    \A k \in 1..Len(posts) :
        LET r == posts[k].row_idx
        IN  legs[r].ended # "no" =>
              /\ (posts[k].ig_posted /\ ~posts[k].x_posted) =>
                    (legs[r].ig = "none" /\ legs[r].x # "none")
              /\ (posts[k].x_posted /\ ~posts[k].ig_posted) =>
                    (legs[r].x = "none" /\ legs[r].ig # "none")

\* C26: without a crash and without a failed ledger write, no item is
\* published twice to the same platform, over any runs for any dates: a
\* platform that published an item more than once had a successful publish
\* of that item whose posted flag was not written.
C26_AtMostOncePerPlatform ==
    \A r \in RowIdxs : \A platform \in Platforms :
        published[r][platform] > 1 =>
            \E u \in unrecorded : u.row_idx = r /\ u.platform = platform

\* Two runs for the date of an item: the first published it on both
\* platforms and recorded both, the second found nothing to post.
C26_Witness ==
    /\ runs = 2
    /\ pc = "returned"
    /\ unrecorded = {}
    /\ all_posted
    /\ \E r \in RowIdxs :
          /\ r - 1 <= Len(ledger)
          /\ ScheduledOn(ledger[r - 1], target)
          /\ published[r] = [ig |-> 1, x |-> 1]

FlagOf(platform) == IF platform = "ig" THEN "ig_posted" ELSE "x_posted"

\* Items of the run whose posted flag of the platform went from false (as
\* listed) to true (in the ledger now).
Flipped(platform) ==
    { k \in 1..Len(posts) :
        /\ ~posts[k][FlagOf(platform)]
        /\ upper(ledger[posts[k].row_idx - 1][FlagOf(platform)]) = "TRUE" }

\* Items of the run whose success status write of the platform completed.
Recorded(platform) ==
    { k \in 1..Len(posts) :
        LET leg == legs[posts[k].row_idx]
        IN  IF platform = "ig" THEN leg.ig = "ok" /\ leg.ig_rec = "ok"
            ELSE leg.x = "ok" /\ leg.x_rec = "ok" }

\* Items of the run whose success status write of the platform broke off
\* after the flag cell and before the post id cell.
HalfRecorded(platform) ==
    { k \in Flipped(platform) :
        LET leg == legs[posts[k].row_idx]
        IN  IF platform = "ig" THEN leg.ig = "ok" /\ leg.ig_rec = "fail"
            ELSE leg.x = "ok" /\ leg.x_rec = "fail" }

\* C27: throughout a run and at its end, ig_success is the number of items
\* whose Instagram success status write completed in the run, and x_success
\* the same for X: a counter is incremented only after its status write
\* returned and every completed status write is counted.  Each counted
\* item had its posted flag changed from false to true; the flags changed
\* in the run are the counted ones and those whose status write broke off
\* after the flag cell.
C27_SuccessCountsCompletedWrites ==
    pc # "idle" =>
        \A platform \in Platforms :
            /\ stats[platform \o "_success"] = Cardinality(Recorded(platform))
            /\ Recorded(platform) \subseteq Flipped(platform)
            /\ Flipped(platform) = Recorded(platform) \cup HalfRecorded(platform)

\* A completed run in which the Instagram flag of an item was set and
\* ig_success stayed 0: the status write broke off after the flag cell.
C27_Witness ==
    /\ pc = "returned"
    /\ stats.ig_success = 0
    /\ Cardinality(Flipped("ig")) = 1
    /\ stats.x_success = 1
    /\ Cardinality(Flipped("x")) = 1

\* C27 as stated: at the end of a run each success counter equals the
\* number of items whose posted flag went from false to true in the run.
C27_SuccessEqualsFlips ==
    pc = "returned" =>
        /\ stats.ig_success = Cardinality(Flipped("ig"))
        /\ stats.x_success = Cardinality(Flipped("x"))

\* Items of the run whose exception was caught at the item boundary.
Caught == { k \in 1..Len(posts) : legs[posts[k].row_idx].ended = "caught" }

\* The item failed with caught publish errors and with nothing else.
OnlyPublishErrors(r) ==
    /\ legs[r].acquired = "ok"
    /\ legs[r].ig \in {"none", "ok", "api_error"}
    /\ legs[r].x \in {"none", "ok", "api_error"}
    /\ legs[r].ig_rec # "fail"
    /\ legs[r].x_rec # "fail"
    /\ legs[r].ig = "api_error" \/ legs[r].x = "api_error"

\* Every due item is processed or caught, and counted once.
Accounted ==
    /\ stats.processed + Cardinality(Caught) = Len(posts)
    /\ \A k \in 1..Len(posts) :
          LET r == posts[k].row_idx
          IN  /\ legs[r].ended \in {"ok", "caught"}
              /\ legs[r].ended = "ok" <=> legs[r].d.processed = 1
              /\ OnlyPublishErrors(r) => legs[r].ended = "ok"

\* C28: a run that completes has accounted for every due item exactly
\* once, as processed or as caught at the item boundary: processed plus the
\* number of caught items is the number of due items; an item whose legs
\* failed only with caught publish errors is among the processed; and no
\* counter decreases during a run.
C28_EveryItemAccounted ==
    [][ /\ runs' = runs =>
              \A c \in {"processed", "ig_success", "x_success", "errors"} :
                  stats'[c] >= stats[c]
        /\ pc' = "returned" => Accounted'
      ]_vars

\* A completed run of two due items: one processed although Instagram
\* refused it, one caught at the item boundary.
C28_Witness ==
    /\ pc = "returned"
    /\ Len(posts) = 2
    /\ stats.processed = 1
    /\ Cardinality(Caught) = 1
    /\ \E k \in 1..2 : OnlyPublishErrors(posts[k].row_idx)

\* C29: a run writes only to the row of the item it is processing, which
\* get_posts_for_date returned for the date of the run, and never deletes
\* a row; recording the outcome of one platform leg leaves the other
\* platform's posted flag and post id of the item unchanged, and no write
\* touches the schedule or the skip box; every other row keeps every field.
C29_WritesOnlyOwnFields ==
    [][ /\ Len(ledger') = Len(ledger)
        /\ \A k \in 1..Len(ledger) :
              ledger'[k] # ledger[k] =>
                  /\ pc \in {"ig_record", "ig_error", "x_record", "x_error", "catch"}
                  /\ idx <= Len(posts)
                  /\ post.row_idx = k + 1
                  /\ ScheduledOn(ledger[k], target)
                  /\ ledger'[k].len = ledger[k].len
                  /\ ledger'[k].sched = ledger[k].sched
                  /\ ledger'[k].skip = ledger[k].skip
                  /\ pc \in {"ig_record", "ig_error", "catch"} =>
                        /\ ledger'[k].x_posted = ledger[k].x_posted
                        /\ ledger'[k].x_post_id = ledger[k].x_post_id
                  /\ pc \in {"x_record", "x_error", "catch"} =>
                        /\ ledger'[k].ig_posted = ledger[k].ig_posted
                        /\ ledger'[k].ig_post_id = ledger[k].ig_post_id
                  /\ pc \in {"ig_record", "x_record"} =>
                        ledger'[k].error_log = ledger[k].error_log
      ]_vars

\* The X success of the second row is recorded: its Instagram
\* cells, written earlier in the run, and the row above it are as before.
C29_Witness ==
    /\ Len(ledger) >= 2
    /\ pc = "item_ok"
    /\ post.row_idx = 3
    /\ legs[3].x = "ok" /\ legs[3].x_rec = "ok"
    /\ ledger[2].ig_posted = "TRUE" /\ ledger[2].x_posted = "TRUE"
    /\ ledger[2].ig_post_id = PostId("ig", 3, 1)
    /\ ledger[1] \in FreshRows

(***************************************************************************)
(* Properties of runs that may crash (specification SpecCrash).            *)
(***************************************************************************)
\* The publishes of a platform that a crash cut off from their status write.
CrashLost(r, platform) ==
    [row_idx |-> r, platform |-> platform, cause |-> "crash"] \in unrecorded

\* C23: exactly-once delivery does not survive a crash.  When the process
\* dies after a platform publish of an item succeeded and before the posted
\* flag is written, the item is still listed for its date as not posted on
\* that platform, and a run that reaches the platform's step for it calls
\* the publisher again; C23_Witness is the execution in which the item is
\* published a second time.
C23_CrashLeavesItemDue ==
    \A r \in RowIdxs : \A platform \in Platforms :
        (CrashLost(r, platform) /\ published[r][platform] = 1) =>
            /\ \E g \in {get_posts_for_date(ledger, [date |-> "D1", time |-> "am"])} :
                 \E k \in 1..Len(g.posts) :
                     /\ g.posts[k].row_idx = r
                     /\ ~g.posts[k][FlagOf(platform)]
            /\ (pc \in {"ig", "x"} /\ pc = platform /\ post.row_idx = r) =>
                 ~post[FlagOf(platform)]

\* The item was published to Instagram twice, the first publish having
\* been cut off from its status write by a crash and by nothing else.
C23_Witness ==
    \E r \in RowIdxs :
        /\ published[r].ig = 2
        /\ CrashLost(r, "ig")
        /\ \A u \in unrecorded : u.cause = "crash"
        /\ target = "D1"
        /\ ledger[r - 1].ig_posted = "TRUE"

(***************************************************************************)
(* Properties of generate_caption (specification SpecCaption).             *)
(***************************************************************************)
\* The text has a token that is no white space.
NonBlank(x) == x # None /\ \E i \in 1..Len(x) : x[i] # " "

\* The text from its first to its last token that is no white space.
Trimmed(x) ==
    LET I == {i \in 1..Len(x) : x[i] # " "}
    IN  SubSeq(x, CHOOSE i \in I : \A j \in I : i <= j,
                  CHOOSE i \in I : \A j \in I : j <= i)

TagLine(req) == IF NonBlank(req.tags) THEN Trimmed(req.tags) ELSE req.default_tags

Assemble(body, tag_line) ==
    IF body # <<>> THEN body \o <<"LF", "LF">> \o tag_line ELSE tag_line

\* C24: for every work name, custom caption and custom tags (each absent,
\* blank or non-blank with or without white space around it),
\* generate_caption returns the precedence table on the trimmed texts: the
\* body is the trimmed custom caption if that is non-blank, else the
\* trimmed work name followed by the fixed suffix if the work name is
\* non-blank, else empty; the tag line is the trimmed custom tags if
\* non-blank, else the default tags; the result is body, blank line, tag
\* line when the body is non-empty, else the tag line alone.
C24_PrecedenceTableTrimmed ==
    caption # None =>
        LET body == IF NonBlank(request.custom_caption)
                    THEN Trimmed(request.custom_caption)
                    ELSE IF NonBlank(request.work_name)
                         THEN Trimmed(request.work_name) \o <<SUFFIX>>
                         ELSE <<>>
        IN  caption = Assemble(body, TagLine(request))

\* A custom caption with white space on both sides, a work name and
\* custom tags with white space too: the caption is built from the three
\* trimmed texts.
C24_Witness ==
    /\ caption # None
    /\ request.custom_caption = <<" ", "a", " ">>
    /\ request.work_name = <<"a", " ">>
    /\ request.tags = <<" ", "a">>
    /\ caption = <<"a", "LF", "LF", "a">>

\* C24 as stated: the body is the custom caption verbatim if it is
\* non-blank after trimming, else the work name followed by the suffix if
\* the work name is non-blank, else empty.
C24_CustomCaptionVerbatim ==
    caption # None =>
        LET body == IF NonBlank(request.custom_caption)
                    THEN request.custom_caption
                    ELSE IF NonBlank(request.work_name)
                         THEN request.work_name \o <<SUFFIX>>
                         ELSE <<>>
        IN  caption = Assemble(body, TagLine(request))

(***************************************************************************)
(* Properties of a failed refresh (specification SpecRefresh).             *)
(***************************************************************************)
\* The last call made an exchange that gave no token, and did not raise:
\* get_valid_token fell back to the token it held, force_refresh returned
\* None.
FailedRefresh ==
    /\ last.op \in {"get_valid_token", "force_refresh"}
    /\ last.raised = "none"
    /\ last.exchanged
    /\ last.exchange \in {"error", "no_token"}

\* The token a call loads from the store.
TokenOf(store) == IF store.kind = "record" THEN store.access_token ELSE ConfigToken

\* C30: a failed exchange writes nothing.  After get_valid_token fell back
\* to the old token, or force_refresh returned None, the persisted record is
\* the record from before the call or a record saved earlier in the same
\* call for the very token the exchange was given (the expiry that
\* _check_expiry looked up, or the token that get_valid_token refreshed
\* inside force_refresh).  After a get_valid_token fallback the token in
\* the store is the one from before the call, and the call returned it.
C30_FailedExchangeWritesNothing ==
    FailedRefresh =>
        /\ \/ stored = last.before
           \/ /\ stored.kind = "record"
              /\ stored.has_expiry
              /\ stored.access_token = last.held
              /\ stored.updated_at = last.at
        /\ last.op = "get_valid_token" =>
              /\ last.ret = last.held
              /\ TokenOf(stored) = TokenOf(last.before)
              /\ stored # last.before =>
                    /\ last.lookup = "expires_at"
                    /\ ~(last.before.kind = "record" /\ last.before.has_expiry)
        /\ last.op = "force_refresh" => last.ret = ""

\* get_valid_token found no record, looked the expiry of the configured
\* token up and saved it, and fell back to that token when the exchange
\* failed: the store holds a record where it held none.
C30_Witness ==
    /\ FailedRefresh
    /\ last.op = "get_valid_token"
    /\ last.before = Absent
    /\ stored.kind = "record"
    /\ stored.access_token = ConfigToken
    /\ last.ret = ConfigToken

\* C30 as stated: after a failed refresh the persisted record is the
\* record from before the call.
C30_RecordUnchanged ==
    FailedRefresh => stored = last.before

TypeOK ==
    /\ pc \in {"idle", "loop", "ig", "ig_record", "ig_error", "x", "x_record",
               "x_error", "item_ok", "catch", "returned", "aborted",
               "crashed"}
    /\ runs \in 0..MaxRuns
    /\ idx \in 1..(Len(posts) + 1)
    /\ faults \in 0..MaxFaults

====
